---- MODULE Spec2Model ----
(***************************************************************************)
(* torchvision/ops/deform_conv.py: the function deform_conv2d and the      *)
(* module class DeformConv2d, as a state machine.                          *)
(*                                                                         *)
(* Representation.                                                         *)
(*   - a Python int argument i is [int |-> i], a 2-tuple (h, w) is         *)
(*     [tuple |-> <<h, w>>]; values already known to be tuples (tensor     *)
(*     shapes, the stored self.stride ...) are plain TLA+ tuples;          *)
(*   - a tensor is [shape |-> <<d1, ..., dn>>, data |-> id]: id 0 is the   *)
(*     all-zero content, id k > 0 the k-th content a random initialiser    *)
(*     or the caller can produce; None is [none |-> TRUE];                 *)
(*   - the module object is [dict |-> plain attributes set so far,         *)
(*     parameters |-> registered parameters so far] (functions whose       *)
(*     domain grows as __init__ proceeds);                                 *)
(*   - tensor dimensions are positive (the shapes of the docstrings);      *)
(*   - stride, padding and dilation go through the same statements; stride *)
(*     ranges over scalars and pairs of 1..MaxStride, padding and dilation *)
(*     over the scalar and the pair form of their default value.           *)
(***************************************************************************)
EXTENDS Integers, Sequences, FiniteSets, TLC

\* ------------------------------------------------------------- bounds ---
MaxCh     == 3   \* in_channels, out_channels, tensor channel counts: 1..MaxCh
MaxGroups == 2   \* groups, offset_groups: 1..MaxGroups
MaxK      == 1   \* kernel height / width: 1..MaxK
MaxStride == 2   \* stride components: 1..MaxStride
MaxOff    == 3   \* channels of the offset tensor: 1..MaxOff
NVals     == 2   \* distinct non-zero tensor contents

\* ---------------------------------------------------------- constants ---
DefaultPadding  == 0   \* padding=0 (line 62); padding is explored at this value,
                       \* as the int and as the pair
DefaultDilation == 1   \* dilation=1 (line 63); likewise

VARIABLES
    pc,       \* "start": no instance yet; "ready": instance constructed;
              \* "failed": __init__ raised; "call"/"ret": a direct call of
              \* deform_conv2d is pending / has returned
    module,   \* the DeformConv2d instance
    op,       \* the last operation invoked, with its arguments
    raised,   \* the exception the last operation ended with
    trace,    \* the statements the last operation executed, in order
    invoked   \* the calls of torch.ops.torchvision.deform_conv2d made by the
              \* last operation, each the tuple of its positional arguments

vars == <<pc, module, op, raised, trace, invoked>>

\* ------------------------------------------------------ Python values ---
PyInt(i)    == [int |-> i]
PyTuple(h, w) == [tuple |-> <<h, w>>]
IsInt(x)    == "int" \in DOMAIN x

None        == [none |-> TRUE]
IsNone(x)   == "none" \in DOMAIN x
Tensor(s, d) == [shape |-> s, data |-> d]

NoException        == [type |-> "None", msg |-> ""]
ValueError(msg)    == [type |-> "ValueError", msg |-> msg]
TypeError(msg)     == [type |-> "TypeError", msg |-> msg]
ZeroDivisionError  == [type |-> "ZeroDivisionError", msg |-> "integer division or modulo by zero"]

\* torch.nn.modules.utils._pair: an iterable is returned as it is, anything
\* else is repeated twice.
_pair(x) == IF IsInt(x) THEN <<x.int, x.int>> ELSE x.tuple

\* torch.zeros(n)
zeros(n) == Tensor(<<n>>, 0)

\* torch.empty(shape): the content is whatever the memory held (u).
empty(s, u) == Tensor(s, u)

\* Python's x // y for the non-negative x and positive y used here.
FloorDiv(x, y) == x \div y

ScalarOrPair(S) == {PyInt(s) : s \in S} \cup {PyTuple(h, w) : h \in S, w \in S}

Data == 0..NVals

\* ------------------------------------------------------ deform_conv2d ---
n_offset_grps_ceil(offset, weight) ==
    LET d == 2 * weight.shape[3] * weight.shape[4]
    IN  FloorDiv(offset.shape[2] + d - 1, d)

\* line 43
n_offset_grps(offset, weight) ==
    FloorDiv(offset.shape[2], 2 * weight.shape[3] * weight.shape[4])

n_weight_grps_by_out(input, weight) == FloorDiv(input.shape[2], weight.shape[1])

\* line 44
n_weight_grps(input, weight) == FloorDiv(input.shape[2], weight.shape[2])

default_bias_by_in(bias, weight) ==
    IF IsNone(bias) THEN zeros(weight.shape[2]) ELSE bias

\* lines 33-35
default_bias(bias, weight) ==
    IF IsNone(bias) THEN zeros(weight.shape[1]) ELSE bias

primitive_args_swapped(input, weight, offset, bias, stride, pad, dil, n_w, n_o) ==
    << input, offset, weight, bias,
       stride[1], stride[2], pad[1], pad[2], dil[1], dil[2], n_w, n_o >>

\* lines 46-55: the positional arguments of torch.ops.torchvision.deform_conv2d
primitive_args(input, weight, offset, bias, stride, pad, dil, n_w, n_o) ==
    << input, weight, offset, bias,
       stride[1], stride[2], pad[1], pad[2], dil[1], dil[2], n_w, n_o >>

\* lines 11-55.  The result is the exception raised (if any) and the calls of
\* the primitive that were made.
deform_conv2d(input, offset, weight, bias, stride, padding, dilation) ==
    LET b == default_bias(bias, weight)
        s == _pair(stride)
        p == _pair(padding)
        d == _pair(dilation)
    IN  IF 2 * weight.shape[3] * weight.shape[4] = 0 \/ weight.shape[2] = 0
        THEN [raised |-> ZeroDivisionError, invoked |-> << >>]
        ELSE [raised  |-> NoException,
              invoked |-> << primitive_args(input, weight, offset, b, s, p, d,
                                            n_weight_grps(input, weight),
                                            n_offset_grps(offset, weight)) >>]

\* ------------------------------------------------------- DeformConv2d ---
EmptyDict == [x \in {} |-> 0]

\* line 64: nn.Module.__init__
Module_init == [dict |-> EmptyDict, parameters |-> EmptyDict]

check_divisibility_no_offset_groups(in_channels, out_channels, groups, offset_groups) ==
    IF in_channels % groups # 0
    THEN ValueError("in_channels must be divisible by groups")
    ELSE IF out_channels % groups # 0
    THEN ValueError("out_channels must be divisible by groups")
    ELSE NoException

\* lines 66-71
check_divisibility(in_channels, out_channels, groups, offset_groups) ==
    IF in_channels % groups # 0
    THEN ValueError("in_channels must be divisible by groups")
    ELSE IF in_channels % offset_groups # 0
    THEN ValueError("in_channels must be divisible by offset_groups")
    ELSE IF out_channels % groups # 0
    THEN ValueError("out_channels must be divisible by groups")
    ELSE NoException

\* lines 73-80
set_config(m, a) ==
    [m EXCEPT !.dict =
        [in_channels   |-> a.in_channels,
         out_channels  |-> a.out_channels,
         kernel_size   |-> _pair(a.kernel_size),
         stride        |-> _pair(a.stride),
         padding       |-> _pair(a.padding),
         dilation      |-> _pair(a.dilation),
         groups        |-> a.groups,
         offset_groups |-> a.offset_groups] @@ m.dict]

\* line 82: the shape handed to torch.empty; kernel_size is the ARGUMENT, not
\* self.kernel_size (only evaluated when the argument is subscriptable).
weight_shape(a) ==
    << a.out_channels, FloorDiv(a.in_channels, a.groups),
       a.kernel_size.tuple[1], a.kernel_size.tuple[2] >>

reset_parameters_make_bias(m, r) ==
    [m EXCEPT !.parameters =
        [weight |-> Tensor(m.parameters.weight.shape, r),
         bias   |-> Tensor(<<m.dict.out_channels>>, r)]]

\* lines 91-96: kaiming_uniform_ refills the weight in place and uniform_
\* refills the bias (if there is one); r is the draw of the random generator
\* that determines both contents.
reset_parameters(m, r) ==
    [m EXCEPT !.parameters =
        [weight |-> Tensor(m.parameters.weight.shape, r),
         bias   |-> IF IsNone(m.parameters.bias)
                    THEN None
                    ELSE Tensor(m.parameters.bias.shape, r)]]

\* lines 82-89, entered with the configuration fields set
alloc_parameters(m, a, u, r) ==
    IF IsInt(a.kernel_size)
    THEN [module |-> m,
          raised |-> TypeError("'int' object is not subscriptable"),
          trace  |-> <<"Module.__init__", "check", "set_config">>]
    ELSE LET mw == [m EXCEPT !.parameters =
                       ("weight" :> empty(weight_shape(a), u)) @@ m.parameters]
             mb == [mw EXCEPT !.parameters =
                       ("bias" :> IF a.bias THEN empty(<<a.out_channels>>, u) ELSE None)
                       @@ mw.parameters]
         IN  [module |-> reset_parameters(mb, r),
              raised |-> NoException,
              trace  |-> <<"Module.__init__", "check", "set_config",
                           "weight", "bias", "reset_parameters">>]

DeformConv2d_init_late_check(a, u, r) ==
    LET e == check_divisibility(a.in_channels, a.out_channels, a.groups, a.offset_groups)
        m == set_config(Module_init, a)
    IN  IF e.type # "None"
        THEN [module |-> m, raised |-> e,
              trace |-> <<"Module.__init__", "set_config", "check">>]
        ELSE alloc_parameters(m, a, u, r)

\* lines 62-89
DeformConv2d_init(a, u, r) ==
    LET e == check_divisibility(a.in_channels, a.out_channels, a.groups, a.offset_groups)
    IN  IF e.type # "None"
        THEN [module |-> Module_init, raised |-> e,
              trace |-> <<"Module.__init__", "check">>]
        ELSE alloc_parameters(set_config(Module_init, a), a, u, r)

forward_default_stride(m, input, offset) ==
    deform_conv2d(input, offset, m.parameters.weight, m.parameters.bias,
                  PyTuple(1, 1), PyTuple(m.dict.padding[1], m.dict.padding[2]),
                  PyTuple(m.dict.dilation[1], m.dict.dilation[2]))

\* lines 98-109
forward(m, input, offset) ==
    deform_conv2d(input, offset, m.parameters.weight, m.parameters.bias,
                  PyTuple(m.dict.stride[1], m.dict.stride[2]),
                  PyTuple(m.dict.padding[1], m.dict.padding[2]),
                  PyTuple(m.dict.dilation[1], m.dict.dilation[2]))

\* ------------------------------------------------------------- inputs ---
CtorArgs ==
    [in_channels   : 1..MaxCh,
     out_channels  : 1..MaxCh,
     kernel_size   : ScalarOrPair(1..MaxK),
     stride        : ScalarOrPair(1..MaxStride),
     padding       : ScalarOrPair({DefaultPadding}),
     dilation      : ScalarOrPair({DefaultDilation}),
     groups        : 1..MaxGroups,
     offset_groups : 1..MaxGroups,
     bias          : BOOLEAN]

InputTensors  == {Tensor(<<1, c, MaxK, MaxK>>, 1) : c \in 1..MaxCh}
OffsetTensors == {Tensor(<<1, c, 1, 1>>, 1) : c \in 1..MaxOff}
WeightTensors == {Tensor(<<o, c, kh, kw>>, 1) :
                     o \in 1..MaxCh, c \in 1..MaxCh, kh \in 1..MaxK, kw \in 1..MaxK}
BiasTensors(weight) == {Tensor(<<weight.shape[1]>>, d) : d \in 1..NVals}

FnArgs ==
    UNION {[input    : InputTensors,
            offset   : OffsetTensors,
            weight   : {w},
            bias     : {None} \cup BiasTensors(w),
            stride   : ScalarOrPair(1..MaxStride),
            padding  : ScalarOrPair({DefaultPadding}),
            dilation : ScalarOrPair({DefaultDilation})] : w \in WeightTensors}

\* ------------------------------------------------------------ actions ---
NoOp == [name |-> "none", args |-> None]

Init ==
    /\ pc = "start"
    /\ module = Module_init
    /\ op = NoOp
    /\ raised = NoException
    /\ trace = << >>
    /\ invoked = << >>

\* The constructions that reach the allocations of lines 82-85: only these
\* read uninitialised memory (u) and draw random contents (r).
Allocates(a) ==
    /\ check_divisibility(a.in_channels, a.out_channels, a.groups, a.offset_groups).type = "None"
    /\ ~IsInt(a.kernel_size)

\* DeformConv2d(in_channels, out_channels, kernel_size, ...)
Construct ==
    /\ pc = "start"
    /\ \E a \in CtorArgs :
         \E u \in (IF Allocates(a) THEN Data ELSE {0}),
            r \in (IF Allocates(a) THEN 1..NVals ELSE {1}) :
            LET res == DeformConv2d_init(a, u, r)
            IN  /\ module' = res.module
                /\ raised' = res.raised
                /\ trace' = res.trace
                /\ op' = [name |-> "__init__", args |-> a]
                /\ pc' = IF res.raised.type = "None" THEN "ready" ELSE "failed"
    /\ invoked' = << >>

\* m.reset_parameters()
ResetParameters ==
    /\ pc = "ready"
    /\ \E r \in 1..NVals :
         module' = reset_parameters(module, r)
    /\ op' = [name |-> "reset_parameters", args |-> None]
    /\ raised' = NoException
    /\ trace' = <<"reset_parameters">>
    /\ invoked' = << >>
    /\ UNCHANGED pc

\* m(input, offset)
Forward ==
    /\ pc = "ready"
    /\ \E input \in InputTensors, offset \in OffsetTensors :
         LET r == forward(module, input, offset)
         IN  /\ raised' = r.raised
             /\ invoked' = r.invoked
             /\ op' = [name |-> "forward", args |-> [input |-> input, offset |-> offset]]
    /\ trace' = <<"forward", "deform_conv2d">>
    /\ UNCHANGED <<pc, module>>

Next == Construct \/ ResetParameters \/ Forward

Spec == Init /\ [][Next]_vars

\* A direct call of the function deform_conv2d, outside any module.
InitFn ==
    /\ pc = "call"
    /\ module = Module_init
    /\ \E a \in FnArgs : op = [name |-> "deform_conv2d", args |-> a]
    /\ raised = NoException
    /\ trace = << >>
    /\ invoked = << >>

Call ==
    /\ pc = "call"
    /\ LET a == op.args
           r == deform_conv2d(a.input, a.offset, a.weight, a.bias,
                              a.stride, a.padding, a.dilation)
       IN  /\ raised' = r.raised
           /\ invoked' = r.invoked
    /\ pc' = "ret"
    /\ trace' = <<"deform_conv2d">>
    /\ UNCHANGED <<module, op>>

NextFn == Call

SpecFn == InitFn /\ [][NextFn]_vars

\* Both ways of using the file: through a DeformConv2d instance, or by calling
\* deform_conv2d directly.
InitAll == Init \/ InitFn

NextAll == Next \/ NextFn

SpecAll == InitAll /\ [][NextAll]_vars

TypeOK ==
    /\ pc \in {"start", "ready", "failed", "call", "ret"}
    /\ raised.type \in {"None", "ValueError", "TypeError", "ZeroDivisionError"}
    /\ Len(invoked) <= 1

\* ------------------------------------------------------------- claims ---
\* The divisibility constraints, stated on the constructor's arguments.
Invalid(a) ==
    \/ a.in_channels % a.groups # 0
    \/ a.in_channels % a.offset_groups # 0
    \/ a.out_channels % a.groups # 0

Constructed == op.name = "__init__"

\* C1: whenever in_channels is not divisible by groups or by offset_groups, or
\* out_channels is not divisible by groups, construction ends in a ValueError.
C1_InvalidConfigRaisesValueError ==
    (Constructed /\ Invalid(op.args)) =>
        (pc = "failed" /\ raised.type = "ValueError")

\* The case only the offset_groups check catches.
C1_Witness ==
    /\ Constructed
    /\ op.args.in_channels % op.args.groups = 0
    /\ op.args.out_channels % op.args.groups = 0
    /\ op.args.in_channels % op.args.offset_groups # 0
    /\ raised.type = "ValueError"

\* C2: for every valid (groups, offset_groups) and every accepted form of
\* kernel_size, stride, padding and dilation (scalar or pair), with or without
\* bias, construction succeeds and leaves the weight allocated and initialised.
C2_ValidConfigConstructs ==
    (Constructed /\ ~Invalid(op.args)) =>
        /\ pc = "ready"
        /\ raised.type = "None"
        /\ "weight" \in DOMAIN module.parameters
        /\ module.parameters.weight.data \in 1..NVals

\* C3: for every invalid combination construction fails before any parameter
\* allocation: no weight, no bias, no configuration field, and
\* reset_parameters has not run.
C3_InvalidFailsBeforeAllocation ==
    (Constructed /\ Invalid(op.args)) =>
        /\ pc = "failed"
        /\ DOMAIN module.parameters = {}
        /\ DOMAIN module.dict = {}
        /\ \A i \in 1..Len(trace) :
              trace[i] \notin {"set_config", "weight", "bias", "reset_parameters"}

C3_Witness ==
    /\ Constructed
    /\ op.args.out_channels % op.args.groups # 0
    /\ op.args.bias
    /\ pc = "failed"
    /\ trace = <<"Module.__init__", "check">>

PairArgNames == {"kernel_size", "stride", "padding", "dilation"}

\* C4: a scalar kernel_size, stride, padding or dilation s is stored as (s, s)
\* by a construction, every use of it (the weight's kernel dimensions
\* included) sees (s, s), and deform_conv2d passes a scalar stride, padding or
\* dilation as both the _h and the _w argument of the primitive.
C4_ScalarsBroadcast ==
    /\ (Constructed /\ ~Invalid(op.args)) =>
          \A f \in PairArgNames :
             IsInt(op.args[f]) =>
                /\ raised.type = "None"
                /\ module.dict[f] = <<op.args[f].int, op.args[f].int>>
                /\ f = "kernel_size" =>
                      /\ module.parameters.weight.shape[3] = op.args[f].int
                      /\ module.parameters.weight.shape[4] = op.args[f].int
    /\ (op.name = "deform_conv2d" /\ pc = "ret") =>
          /\ Len(invoked) = 1
          /\ IsInt(op.args.stride) =>
                invoked[1][5] = op.args.stride.int /\ invoked[1][6] = op.args.stride.int
          /\ IsInt(op.args.padding) =>
                invoked[1][7] = op.args.padding.int /\ invoked[1][8] = op.args.padding.int
          /\ IsInt(op.args.dilation) =>
                invoked[1][9] = op.args.dilation.int /\ invoked[1][10] = op.args.dilation.int

\* The group-related fields are the values supplied at construction.
FieldsAreCtorArgs ==
    (Constructed /\ pc = "ready") =>
        /\ module.dict.in_channels = op.args.in_channels
        /\ module.dict.out_channels = op.args.out_channels
        /\ module.dict.groups = op.args.groups
        /\ module.dict.offset_groups = op.args.offset_groups
        /\ module.dict.kernel_size = op.args.kernel_size.tuple

WellFormedForward ==
    /\ op.name = "forward"
    /\ op.args.input.shape[2] = module.dict.in_channels
    /\ op.args.offset.shape[2] =
          2 * module.dict.offset_groups
            * module.dict.kernel_size[1] * module.dict.kernel_size[2]

C6_OmittedBiasIsZeroVector ==
    /\ (op.name = "deform_conv2d" /\ pc = "ret") =>
          /\ Len(invoked) = 1
          /\ invoked[1][4] = IF IsNone(op.args.bias)
                              THEN Tensor(<<op.args.weight.shape[1]>>, 0)
                              ELSE op.args.bias
    /\ (Constructed /\ pc = "ready") =>
          (IsNone(module.parameters.bias) <=> ~op.args.bias)
    /\ op.name = "forward" =>
          /\ Len(invoked) = 1
          /\ module.parameters.weight.shape[1] = module.dict.out_channels
          /\ invoked[1][4] = IF IsNone(module.parameters.bias)
                              THEN Tensor(<<module.dict.out_channels>>, 0)
                              ELSE module.parameters.bias

C6_Witness ==
    /\ op.name = "forward"
    /\ IsNone(module.parameters.bias)
    /\ module.dict.out_channels = 3
    /\ module.parameters.weight.shape[2] = 2
    /\ invoked[1][4] = Tensor(<<3>>, 0)

\* C7: a call deform_conv2d(input, offset, weight, ...) invokes the primitive
\* exactly once, with the arguments input, weight, offset, bias, stride_h,
\* stride_w, pad_h, pad_w, dilation_h, dilation_w, weight group count, offset
\* group count, in this order.
C7_PrimitiveArgumentOrder ==
    (op.name = "deform_conv2d" /\ pc = "ret") =>
        LET a == op.args
            c == invoked[1]
        IN  /\ Len(invoked) = 1
            /\ Len(c) = 12
            /\ c[1] = a.input
            /\ c[2] = a.weight
            /\ c[3] = a.offset
            /\ c[4].shape = <<a.weight.shape[1]>>
            /\ <<c[5], c[6]>> = _pair(a.stride)
            /\ <<c[7], c[8]>> = _pair(a.padding)
            /\ <<c[9], c[10]>> = _pair(a.dilation)
            /\ c[11] = a.input.shape[2] \div a.weight.shape[2]
            /\ c[12] = a.offset.shape[2] \div (2 * a.weight.shape[3] * a.weight.shape[4])

C7_Witness ==
    /\ op.name = "deform_conv2d" /\ pc = "ret"
    /\ op.args.weight.shape # op.args.offset.shape
    /\ invoked[1][5] # invoked[1][6]
    /\ invoked[1][11] = 2
    /\ invoked[1][12] = 1

Malformed(a) ==
    \/ a.offset.shape[2] % (2 * a.weight.shape[3] * a.weight.shape[4]) # 0
    \/ a.input.shape[2] % a.weight.shape[2] # 0

\* C8 (as claimed): when the offset channel count is not a multiple of 2*kh*kw
\* or the input channel count is not a multiple of weight.shape[1], the call
\* ends in an error and no floored group count reaches the primitive.
C8_MalformedShapesRaise ==
    (op.name = "deform_conv2d" /\ pc = "ret" /\ Malformed(op.args)) =>
        (raised.type # "None" /\ invoked = << >>)

\* C8 (amended): in these cases deform_conv2d raises nothing itself and
\* corrects nothing: it invokes the primitive once with the caller's tensors
\* unchanged and with the floored quotients as group counts.
C8_MalformedShapesPassedOnFloored ==
    (op.name = "deform_conv2d" /\ pc = "ret" /\ Malformed(op.args)) =>
        LET a == op.args
            c == invoked[1]
            d == 2 * a.weight.shape[3] * a.weight.shape[4]
        IN  /\ raised.type = "None"
            /\ Len(invoked) = 1
            /\ c[1] = a.input /\ c[2] = a.weight /\ c[3] = a.offset
            /\ c[11] * a.weight.shape[2] <= a.input.shape[2]
            /\ a.input.shape[2] < (c[11] + 1) * a.weight.shape[2]
            /\ c[12] * d <= a.offset.shape[2]
            /\ a.offset.shape[2] < (c[12] + 1) * d

C8_Witness ==
    /\ op.name = "deform_conv2d" /\ pc = "ret"
    /\ op.args.offset.shape[2] = 3
    /\ op.args.weight.shape[3] = 1 /\ op.args.weight.shape[4] = 1
    /\ op.args.input.shape[2] = 3 /\ op.args.weight.shape[2] = 2
    /\ Len(invoked) = 1
    /\ invoked[1][11] = 1 /\ invoked[1][12] = 1

\* C9: a forward call changes nothing of the module (weight, bias or its
\* absence, configuration fields) and passes the stored stride, padding and
\* dilation and the held weight and bias to the primitive, which it invokes
\* once.
C9_ForwardHasNoSideEffects ==
    [][ (pc = "ready" /\ op'.name = "forward") =>
          /\ module' = module
          /\ pc' = "ready"
          /\ Len(invoked') = 1
          /\ invoked'[1][1] = op'.args.input
          /\ invoked'[1][2] = module.parameters.weight
          /\ invoked'[1][3] = op'.args.offset
          /\ invoked'[1][4] = IF IsNone(module.parameters.bias)
                               THEN Tensor(<<module.dict.out_channels>>, 0)
                               ELSE module.parameters.bias
          /\ <<invoked'[1][5], invoked'[1][6]>> = module.dict.stride
          /\ <<invoked'[1][7], invoked'[1][8]>> = module.dict.padding
          /\ <<invoked'[1][9], invoked'[1][10]>> = module.dict.dilation ]_vars

C9_Witness ==
    /\ op.name = "forward"
    /\ module.dict.stride = <<1, 2>>
    /\ ~IsNone(module.parameters.bias)
    /\ invoked[1][5] = 1 /\ invoked[1][6] = 2

ShapesOK ==
    pc = "ready" =>
        LET w == module.parameters.weight
            b == module.parameters.bias
            d == module.dict
        IN  /\ Len(w.shape) = 4
            /\ w.shape[1] = d.out_channels
            /\ w.shape[2] * d.groups = d.in_channels
            /\ w.shape[3] = d.kernel_size[1]
            /\ w.shape[4] = d.kernel_size[2]
            /\ IsNone(b) \/ b.shape = <<d.out_channels>>
            /\ Constructed => (IsNone(b) <=> ~op.args.bias)

ResetKeepsShapes ==
    (pc = "ready" /\ op'.name \in {"reset_parameters", "forward"}) =>
        /\ module'.dict = module.dict
        /\ DOMAIN module'.parameters = DOMAIN module.parameters
        /\ module'.parameters.weight.shape = module.parameters.weight.shape
        /\ IsNone(module'.parameters.bias) <=> IsNone(module.parameters.bias)
        /\ ~IsNone(module.parameters.bias) =>
              module'.parameters.bias.shape = module.parameters.bias.shape

\* C10: after a successful construction and any reset_parameters and forward
\* calls the weight has shape (out_channels, in_channels/groups, kh, kw) with
\* an exact quotient and the bias is absent (bias=False) or a vector of length
\* out_channels; reset_parameters changes values only, never a shape or the
\* presence of the bias.
C10_ParameterShapesInvariant ==
    /\ [](FieldsAreCtorArgs /\ ShapesOK)
    /\ [][ResetKeepsShapes]_vars

C10_Witness ==
    /\ op.name = "reset_parameters"
    /\ module.dict.in_channels = 2
    /\ module.dict.groups = 2
    /\ module.parameters.weight.shape = <<2, 1, 1, 1>>
    /\ IsNone(module.parameters.bias)

====
